---- MODULE Spec2Model ----
(***************************************************************************)
(* Model of the serverless functions of adamlloydjones/my-app:             *)
(*   - the polling job  netlify/functions/check-printful-shipments.js      *)
(*   - the three printful-webhook.js handler variants (src/unnamed)        *)
(* External systems (fulfillment API, email API, blob store) answer        *)
(* nondeterministically; the handlers' control flow is taken from the code.*)
(***************************************************************************)
EXTENDS Integers, Sequences, FiniteSets

VARIABLES
  store,        \* blob store 'shipment-emails': order id -> "sent" | "absent"
  delivered,    \* history: order id -> number of times sendShipmentEmail returned success
  invocations,  \* history: number of polling-job invocations started so far
  job,          \* polling job: handler instance -> its local state
  wh,           \* webhook: the last request handled and its result
  flt,          \* fetchRecentShippedOrders' filter: input, clock and output
  storeFault,   \* history: some store.get or store.set has thrown so far
  sendFailed    \* history: order ids whose send has returned failure so far

vars == <<store, delivered, invocations, job, wh, flt, storeFault, sendFailed>>

\* ------------------------------------------------------------------ bounds
MaxOrders == 2        \* distinct order ids the fulfillment API knows
MaxInvocations == 2   \* polling-job invocations in one behaviour
MaxConcurrentOrders == 1  \* orders listed to an invocation that overlaps another

OrderIds == 1..MaxOrders

\* Handler instances that may be alive at the same time.
Instances == {"a", "b"}

\* ---------------------------------------------------- time and the filter
\* 24 * 60 * 60 * 1000 ms (check-printful-shipments.js:129)
Window == 24 * 60 * 60 * 1000

\* Date.now() at the time of the call
NowValues == {2 * Window, 2 * Window + 1}

\* Timestamps in ms since the epoch. 0 stands for every falsy / missing value
\* (undefined, null, 0, ""): `x || y` skips it and new Date(x).getTime() is
\* NaN or 0 for it, neither of which is > a positive cutoff.
Times == {0, Window, Window + 1, Window + 2}

\* a || b  (JavaScript: b when a is falsy)
OrElse(a, b) == IF a = 0 THEN b ELSE a

\* new Date(v).getTime(): a number v is taken as ms since the epoch and comes
\* back unchanged; the missing value (0 here) gives NaN or 0, which no
\* comparison with the positive cutoff lets through.
GetTime(v) == v

\* Mutant: `>=` for `>`, so an order shipped exactly 24 hours ago is kept.
IsRecentlyShipped_Inclusive(order, now) ==
  IF Len(order.shipments) = 0
    THEN FALSE
    ELSE GetTime(OrElse(order.shipments[1].shipped_at, order.updated))
           >= now - Window

\* The predicate handed to orders.filter (lines 131-138).
\* shipments = <<>> stands for a missing or an empty shipments array.
IsRecentlyShipped(order, now) ==
  LET twentyFourHoursAgo == now - Window
  IN IF Len(order.shipments) = 0
       THEN FALSE
       ELSE GetTime(OrElse(order.shipments[1].shipped_at, order.updated))
              > twentyFourHoursAgo

\* Array.prototype.filter: keeps the elements that satisfy the predicate, in order.
RECURSIVE FilterFrom(_, _, _)
FilterFrom(orders, now, i) ==
  IF i > Len(orders)
    THEN <<>>
    ELSE (IF IsRecentlyShipped(orders[i], now) THEN <<orders[i]>> ELSE <<>>)
           \o FilterFrom(orders, now, i + 1)

\* Mutant: response.ok is not looked at, a list that came with an error
\* status is filtered and returned.
fetchRecentShippedOrders_IgnoresStatus(outcome, result, now) ==
  IF outcome = "thrown" THEN <<>> ELSE FilterFrom(result, now, 1)

\* fetchRecentShippedOrders: outcome of GET /orders, then the filter.
\* A non-OK response and a thrown error both give the empty list.
fetchRecentShippedOrders(outcome, result, now) ==
  IF outcome = "ok" THEN FilterFrom(result, now, 1) ELSE <<>>


\* ------------------------------------------------------------ polling job
\* Outcomes of the external calls of one invocation.
FetchOutcomes  == {"ok", "nonOK", "thrown"}          \* GET /orders
DetailOutcomes == {"ok", "okUnprintable",            \* GET /orders/{id}
                   "noShipments", "nonOK", "thrown"}
SendOutcomes   == {"ok", "okBadJson", "nonOK", "thrown"}  \* POST /v2/email/send

\* What the fulfillment API may list: orders with distinct ids, each not
\* shipped, shipped inside the window, or shipped outside it.
JobShipments == { <<>>,
                  <<[shipped_at |-> Window + 2]>>,
                  <<[shipped_at |-> Window]>> }
JobOrders == [id : OrderIds, shipments : JobShipments, updated : {Window + 2}]
JobOrderLists ==
  { s \in UNION { [1..n -> JobOrders] : n \in 0..MaxOrders } :
      \A x, y \in DOMAIN s : x # y => s[x].id # s[y].id }

Ids(orders) == [k \in 1..Len(orders) |-> orders[k].id]

NoResponse == [statusCode |-> 0, body |-> "none",
               ordersFound |-> 0, emailsSent |-> 0, errors |-> 0]

\* Locals of a handler instance that is not running.
\*   reads, outcomes, calls are history: what the store answered, how each
\*   iteration ended, and which requests the invocation issued.
\*   keys, fetch are history: whether both API keys were set, and how the
\*   order-list request ended ("none": not issued).
IdleJob == [pc |-> "idle", orders |-> <<>>, idx |-> 1, info |-> "none",
            emailsSent |-> 0, errors |-> 0,
            reads |-> <<>>, outcomes |-> <<>>, calls |-> {},
            keys |-> TRUE, fetch |-> "none",
            response |-> NoResponse]

\* Mutant: the flag is never honoured.
checkIfEmailSent_Never(read) == FALSE

\* Mutant: a store failure counts as "already sent".
checkIfEmailSent_ErrorIsSent(read) == read \in {"sent", "error"}

\* checkIfEmailSent (lines 323-336): `sent === 'sent'`, and false when the
\* store throws. read is what store.get produced: the value, or "error".
checkIfEmailSent(read) == read = "sent"

\* getShipmentInfo (lines 149-191): null unless the detail request is OK and
\* the order has a shipment. "infoUnprintable": a field of the detail that
\* cannot be converted to a string.
getShipmentInfo(detail) ==
  CASE detail = "ok"            -> "info"
    [] detail = "okUnprintable" -> "infoUnprintable"
    [] OTHER                    -> "null"

\* sendShipmentEmail (lines 196-317). The HTML is assembled before the try
\* block (lines 201-289): a field that cannot be converted to a string throws
\* out of the function. response.json() is awaited before response.ok is
\* read (lines 301-303), inside the try.
sendShipmentEmail(info, send) ==
  IF info = "infoUnprintable" THEN "throws"
  ELSE IF send = "ok" THEN "success"
  ELSE "failure"

\* Mutant: the flag is not written.
markEmailAsSent_Dropped(st, orderId, writeOk) == st

\* markEmailAsSent (lines 341-350): store.set(orderId, 'sent'); a throw is
\* logged and swallowed.
markEmailAsSent(st, orderId, writeOk) ==
  IF writeOk THEN [st EXCEPT ![orderId] = "sent"] ELSE st

\* The return at lines 82-90.
CompletedResponse(j) ==
  [statusCode |-> 200, body |-> "completed",
   ordersFound |-> Len(j.orders), emailsSent |-> j.emailsSent, errors |-> j.errors]

\* The return at lines 24-32.
MissingKeysResponse ==
  [statusCode |-> 500, body |-> "missingKeys",
   ordersFound |-> 0, emailsSent |-> 0, errors |-> 0]

\* The return of the outer catch at lines 92-100.
InternalErrorResponse ==
  [statusCode |-> 500, body |-> "internalError",
   ordersFound |-> 0, emailsSent |-> 0, errors |-> 0]

\* End of one iteration of `for (const order of orders)`: the next order, or
\* the return after the loop.
NextOrder(j) ==
  IF j.idx + 1 > Len(j.orders)
    THEN [j EXCEPT !.idx = j.idx + 1, !.info = "none", !.pc = "done",
                   !.response = CompletedResponse(j)]
    ELSE [j EXCEPT !.idx = j.idx + 1, !.info = "none", !.pc = "check"]

\* emailsSent++ (line 70)
CountSent(j) == [j EXCEPT !.emailsSent = @ + 1]

\* errors++ (lines 73 and 78)
CountError(j) == [j EXCEPT !.errors = @ + 1]

\* The else branch at lines 71-74.
OnSendFailure(j) == NextOrder(CountError(j))

\* Mutant: the exception is not caught per order and ends the invocation.
OnOrderException_Abort(j) ==
  [j EXCEPT !.pc = "done", !.response = InternalErrorResponse]

\* The catch block at lines 76-79.
OnOrderException(j) == NextOrder(CountError(j))

\* Mutant: a skipped order is counted as an error.
Continue_CountsError(j) == NextOrder(CountError(j))

\* `continue` at lines 47-50 (already sent) and 55-58 (no shipment info).
Continue(j) == NextOrder(j)

Record(j, outcome) == [j EXCEPT !.outcomes = Append(@, outcome)]
Issue(j, kind)     == [j EXCEPT !.calls = @ \cup {<<kind, j.orders[j.idx]>>}]

\* Lines 17-36 and, for an empty list, 82-90: the handler starts, checks the
\* API keys and fetches the filtered order list.
BeginJob(keys, outcome, result, now) ==
  IF ~keys
    THEN [IdleJob EXCEPT !.pc = "done", !.keys = FALSE,
                         !.response = MissingKeysResponse]
    ELSE LET orders == Ids(fetchRecentShippedOrders(outcome, result, now))
             j == [IdleJob EXCEPT !.orders = orders, !.fetch = outcome]
         IN IF Len(orders) = 0
              THEN [j EXCEPT !.pc = "done", !.response = CompletedResponse(j)]
              ELSE [j EXCEPT !.pc = "check"]

Start(i) ==
  /\ job[i].pc = "idle"
  /\ invocations < MaxInvocations
  /\ invocations' = invocations + 1
  /\ \E keys \in BOOLEAN, outcome \in FetchOutcomes,
        result \in JobOrderLists, now \in NowValues :
       job' = [job EXCEPT ![i] = BeginJob(keys, outcome, result, now)]
  /\ UNCHANGED <<store, delivered, wh, flt, storeFault, sendFailed>>

\* Mutant: the `continue` is missing, an order read as sent is processed.
AfterCheck_NoSkip(j, read) ==
  [Issue([j EXCEPT !.reads = Append(@, read)], "get") EXCEPT !.pc = "detail"]

\* Lines 45-50: read the flag; skip the order when it is already sent.
AfterCheck(j, read) ==
  LET r == Issue([j EXCEPT !.reads = Append(@, read)], "get")
  IN IF checkIfEmailSent(read)
       THEN Continue(Record(r, "skipped"))
       ELSE [r EXCEPT !.pc = "detail"]

CheckSent(i) ==
  /\ job[i].pc = "check"
  /\ \E readOk \in BOOLEAN :
       LET read == IF readOk THEN store[job[i].orders[job[i].idx]] ELSE "error"
       IN /\ job' = [job EXCEPT ![i] = AfterCheck(job[i], read)]
          /\ storeFault' = (storeFault \/ ~readOk)
  /\ UNCHANGED <<store, delivered, invocations, wh, flt, sendFailed>>

\* Lines 53-58: fetch the shipment detail; skip the order when there is none.
AfterDetail(j, detail) ==
  LET r == Issue(j, "detail")
      shipmentInfo == getShipmentInfo(detail)
  IN IF shipmentInfo = "null"
       THEN Continue(Record(r, "noinfo"))
       ELSE [r EXCEPT !.pc = "send", !.info = shipmentInfo]

GetShipment(i) ==
  /\ job[i].pc = "detail"
  /\ \E detail \in DetailOutcomes :
       job' = [job EXCEPT ![i] = AfterDetail(job[i], detail)]
  /\ UNCHANGED <<store, delivered, invocations, wh, flt, storeFault, sendFailed>>

\* Mutant: markEmailAsSent is reached whatever the send returned.
AfterSend_MarksAnyway(j, send) ==
  LET emailResult == sendShipmentEmail(j.info, send)
  IN CASE emailResult = "throws"  -> OnOrderException(Record(j, "threw"))
       [] emailResult = "success" -> [Record(Issue(j, "send"), "sent") EXCEPT !.pc = "mark"]
       [] OTHER                   -> [Record(Issue(j, "send"), "failed") EXCEPT !.pc = "mark"]

\* Lines 61-74 up to the await of markEmailAsSent, and the catch at 76-79.
AfterSend(j, send) ==
  LET emailResult == sendShipmentEmail(j.info, send)
  IN CASE emailResult = "throws"  -> OnOrderException(Record(j, "threw"))
       [] emailResult = "success" -> [Record(Issue(j, "send"), "sent") EXCEPT !.pc = "mark"]
       [] OTHER                   -> OnSendFailure(Record(Issue(j, "send"), "failed"))

SendEmail(i) ==
  /\ job[i].pc = "send"
  /\ \E send \in SendOutcomes :
       /\ job' = [job EXCEPT ![i] = AfterSend(job[i], send)]
       /\ delivered' =
            IF sendShipmentEmail(job[i].info, send) = "success"
              THEN [delivered EXCEPT ![job[i].orders[job[i].idx]] = @ + 1]
              ELSE delivered
       /\ sendFailed' =
            IF sendShipmentEmail(job[i].info, send) = "failure"
              THEN sendFailed \cup {job[i].orders[job[i].idx]}
              ELSE sendFailed
  /\ UNCHANGED <<store, invocations, wh, flt, storeFault>>

\* Lines 69-70: write the flag, count the email, next order.
AfterMark(j) == NextOrder(CountSent(Issue(j, "set")))

MarkSent(i) ==
  /\ job[i].pc = "mark"
  /\ \E writeOk \in BOOLEAN :
       /\ store' = markEmailAsSent(store, job[i].orders[job[i].idx], writeOk)
       /\ storeFault' = (storeFault \/ ~writeOk)
  /\ job' = [job EXCEPT ![i] = AfterMark(job[i])]
  /\ UNCHANGED <<delivered, invocations, wh, flt, sendFailed>>

\* The response has been handed back to the platform: the invocation's
\* locals are gone and the function can be invoked again.
Return(i) ==
  /\ job[i].pc = "done"
  /\ job' = [job EXCEPT ![i] = IdleJob]
  /\ UNCHANGED <<store, delivered, invocations, wh, flt, storeFault, sendFailed>>

JobNext(i) ==
  \/ Start(i)
  \/ CheckSent(i)
  \/ GetShipment(i)
  \/ SendEmail(i)
  \/ MarkSent(i)
  \/ Return(i)

\* --------------------------------------------------------------- webhooks
\* The request body, as far as the handlers look into it.
\*   json      : JSON.parse throws / gives null / gives an object
\*   type      : payload.type ("none": no such field)
\*   data      : payload.data is present
\*   shipment  : data.shipment is present        (v1 payload, direct-email variant)
\*   items     : data.shipment_items: missing, an array of items, or something
\*               .map / .reduce fail on                (v2 payload, group variants)
\*   order, recipient, email : data.order, order.recipient, recipient.email
\*               are present (an empty email counts as missing: it is falsy)
\*   name      : recipient.name: missing, a string, or a truthy non-string
EmptyObject == [json |-> "object", type |-> "none", data |-> FALSE, shipment |-> FALSE,
                items |-> "absent", order |-> FALSE, recipient |-> FALSE,
                email |-> FALSE, name |-> "absent"]

Bodies ==
  { b \in [json : {"unparsable", "null", "object"},
           type : {"none", "other", "package_shipped", "shipment_sent"},
           data : BOOLEAN, shipment : BOOLEAN, items : {"absent", "list", "malformed"},
           order : BOOLEAN, recipient : BOOLEAN, email : BOOLEAN,
           name : {"absent", "string", "nonString"}] :
      /\ b.json # "object" => b = [EmptyObject EXCEPT !.json = b.json]
      /\ ~b.data => ~b.shipment /\ b.items = "absent" /\ ~b.order
      /\ ~b.order => ~b.recipient
      /\ ~b.recipient => ~b.email /\ b.name = "absent" }

Methods == {"POST", "GET"}

\* How an outbound fetch can end: 2xx with a JSON body, 2xx with a body that
\* is not JSON, 409, another non-2xx status, a non-2xx status whose body
\* cannot be read, or a rejected fetch (network error).
WhOutcomes == {"ok", "okBadJson", "conflict", "nonOK", "nonOKNoBody", "thrown"}

IsOk(outcome) == outcome \in {"ok", "okBadJson"}

Call(req, outcome) == [req |-> req, outcome |-> outcome]

\* A handler's way out of its try block: a returned response, or a throw.
\*   caught    : the throw reached the handler's top-level catch
\*   swallowed : exceptions and rejections handled before they got there
Returned(status, body, calls) ==
  [threw |-> FALSE, statusCode |-> status, body |-> body, calls |-> calls,
   parsed |-> TRUE, caught |-> FALSE, swallowed |-> {}]
Thrown(calls) ==
  [threw |-> TRUE, statusCode |-> 0, body |-> "none", calls |-> calls,
   parsed |-> TRUE, caught |-> FALSE, swallowed |-> {}]

Swallow(r, sites) == [r EXCEPT !.swallowed = @ \cup sites]

\* The method check in front of every handler (lines 5-10, 103-108, 265-270).
MethodNotAllowed ==
  [threw |-> FALSE, statusCode |-> 405, body |-> "methodNotAllowed",
   calls |-> <<>>, parsed |-> FALSE, caught |-> FALSE, swallowed |-> {}]

\* Mutant: no top-level catch, the exception leaves the handler.
CatchAll_Rethrow(r) == r

\* The catch block that ends every handler (lines 87-97, 249-259, 411-421).
CatchAll(r) ==
  IF r.threw
    THEN [r EXCEPT !.threw = FALSE, !.caught = TRUE,
                   !.statusCode = 500, !.body = "failedToProcess"]
    ELSE r

\* Mutant: the event type is not looked at.
ParseAndDispatch_NoTypeCheck(b, handled, rest) ==
  IF b.json = "unparsable" THEN Thrown(<<>>)
  ELSE IF b.json = "null" THEN Thrown(<<>>)
  ELSE rest

\* JSON.parse(event.body) and the discriminator test `payload.type !== handled`
\* (lines 14-24, 112-122, 274-284). rest is the result of what follows.
ParseAndDispatch(b, handled, rest) ==
  IF b.json = "unparsable" THEN Thrown(<<>>)          \* JSON.parse throws
  ELSE IF b.json = "null" THEN Thrown(<<>>)           \* null.type throws
  ELSE IF b.type # handled THEN Returned(200, "notHandled", <<>>)
  ELSE rest

\* Direct-email variant, lines 26-85.
DirectEmailBody(b, o1) ==
  IF ~b.data THEN Thrown(<<>>)                        \* payload.data.order
  ELSE IF ~b.order THEN Thrown(<<>>)                  \* order.recipient
  ELSE IF ~b.recipient THEN Thrown(<<>>)              \* order.recipient.email
  ELSE IF ~b.shipment THEN Thrown(<<>>)               \* shipment.tracking_number
  ELSE LET calls == <<Call("POST email", o1)>>
       IN IF o1 = "ok" THEN Returned(200, "success", calls)
          ELSE Thrown(calls)     \* fetch rejects, !ok throws, or json() throws

\* Mutant: the method check is missing.
DirectEmailHandler_NoMethodCheck(method, b, o1) ==
  CatchAll(ParseAndDispatch(b, "package_shipped", DirectEmailBody(b, o1)))

DirectEmailHandler(method, b, o1) ==
  IF method # "POST" THEN MethodNotAllowed
  ELSE CatchAll(ParseAndDispatch(b, "package_shipped", DirectEmailBody(b, o1)))

\* Group variants, lines 124-165 and 286-328: field extraction, the email
\* check and the group id check. rest is the result of what follows.
GroupPrefix(b, groupId, rest) ==
  IF ~b.data THEN Thrown(<<>>)                        \* shipment.order on undefined
  ELSE IF b.items = "malformed" THEN Thrown(<<>>)     \* shippedItems.map / reduce
  ELSE IF ~b.email THEN Returned(400, "noEmail", <<>>)
  ELSE IF ~groupId THEN Returned(500, "noGroupId", <<>>)
  ELSE rest

\* Remove-then-re-add variant, lines 183-247: what follows the DELETE.
\* addToGroupResponse.json() is given a .catch (line 235).
AfterRemove(b, del, o2, o3) ==
  LET upd == del \o <<Call("POST subscriber", o2)>>
      add == upd \o <<Call("POST group", o3)>>
  IN IF b.name = "nonString" THEN Thrown(del)         \* customerName?.split
     ELSE IF o2 = "thrown" THEN Thrown(upd)
     ELSE IF o2 = "nonOKNoBody" THEN Thrown(upd)      \* updateResponse.text()
     ELSE IF IsOk(o3)
            THEN Swallow(Returned(200, "success", add),
                         IF o3 = "okBadJson" THEN {"json"} ELSE {})
     ELSE Thrown(add)

\* Mutant: the DELETE is not wrapped in a try/catch of its own.
RemoveReAddBody_DeleteFatal(b, o1, o2, o3) ==
  IF o1 = "thrown"
    THEN Thrown(<<Call("DELETE group", o1)>>)
    ELSE AfterRemove(b, <<Call("DELETE group", o1)>>, o2, o3)

\* Remove-then-re-add variant, lines 167-181: the DELETE sits in a try/catch
\* of its own, and its response is not looked at.
RemoveReAddBody(b, o1, o2, o3) ==
  Swallow(AfterRemove(b, <<Call("DELETE group", o1)>>, o2, o3),
          IF o1 = "thrown" THEN {"DELETE group"} ELSE {})

RemoveReAddHandler(method, b, groupId, o1, o2, o3) ==
  IF method # "POST" THEN MethodNotAllowed
  ELSE CatchAll(ParseAndDispatch(b, "shipment_sent",
                  GroupPrefix(b, groupId, RemoveReAddBody(b, o1, o2, o3))))

\* Create-or-update variant, lines 330-409. senderResponse.json() is given a
\* .catch (line 398); after a 409 the body was already read by text() (line
\* 356), so json() rejects there.
CreateOrUpdateBody(b, o1, o2) ==
  LET post  == <<Call("POST subscriber", o1)>>
      patch == post \o <<Call("PATCH subscriber", o2)>>
  IN IF b.name = "nonString" THEN Thrown(<<>>)        \* customerName?.split
     ELSE IF IsOk(o1)
            THEN Swallow(Returned(200, "success", post),
                         IF o1 = "okBadJson" THEN {"json"} ELSE {})
     ELSE IF o1 = "conflict"
            THEN (IF IsOk(o2)
                    THEN Swallow(Returned(200, "success", patch), {"json"})
                    ELSE Thrown(patch))
     ELSE Thrown(post)

CreateOrUpdateHandler(method, b, groupId, o1, o2) ==
  IF method # "POST" THEN MethodNotAllowed
  ELSE CatchAll(ParseAndDispatch(b, "shipment_sent",
                  GroupPrefix(b, groupId, CreateOrUpdateBody(b, o1, o2))))

\* A handled request: the variant, what came in, what each outbound call
\* would answer, and the result.
Handled(variant, method, b, groupId, outs, result) ==
  [variant |-> variant, httpMethod |-> method, body |-> b, groupId |-> groupId,
   outs |-> outs, escaped |-> result.threw, statusCode |-> result.statusCode,
   reply |-> result.body, calls |-> result.calls, parsed |-> result.parsed,
   caught |-> result.caught, swallowed |-> result.swallowed]

DirectEmail ==
  /\ wh.variant = "none"
  /\ \E method \in Methods, b \in Bodies, o1 \in WhOutcomes :
       wh' = Handled("directEmail", method, b, FALSE, <<o1>>,
                     DirectEmailHandler(method, b, o1))
  /\ UNCHANGED <<store, delivered, invocations, job, flt, storeFault, sendFailed>>

RemoveReAdd ==
  /\ wh.variant = "none"
  /\ \E method \in Methods, b \in Bodies, groupId \in BOOLEAN,
        o1 \in WhOutcomes, o2 \in WhOutcomes, o3 \in WhOutcomes :
       wh' = Handled("removeReAdd", method, b, groupId, <<o1, o2, o3>>,
                     RemoveReAddHandler(method, b, groupId, o1, o2, o3))
  /\ UNCHANGED <<store, delivered, invocations, job, flt, storeFault, sendFailed>>

CreateOrUpdate ==
  /\ wh.variant = "none"
  /\ \E method \in Methods, b \in Bodies, groupId \in BOOLEAN,
        o1 \in WhOutcomes, o2 \in WhOutcomes :
       wh' = Handled("createOrUpdate", method, b, groupId, <<o1, o2>>,
                     CreateOrUpdateHandler(method, b, groupId, o1, o2))
  /\ UNCHANGED <<store, delivered, invocations, job, flt, storeFault, sendFailed>>

WebhookNext == DirectEmail \/ RemoveReAdd \/ CreateOrUpdate

\* ------------------------------------------- the filter on its own inputs
\* Order lists for the filter: the id of an order is its place in the list.
\* A second shipment, when there is one, is old or recent.
FilterShipments ==
  {<<>>}
    \cup { <<[shipped_at |-> t]>> : t \in Times }
    \cup { <<[shipped_at |-> t], [shipped_at |-> u]>> :
             t \in Times, u \in {Window, Window + 2} }

FilterOrderLists ==
  { [k \in DOMAIN s |-> [id |-> k, shipments |-> s[k].shipments,
                         updated |-> s[k].updated]] :
      s \in UNION { [1..n -> [shipments : FilterShipments, updated : Times]] :
                      n \in 0..MaxOrders } }

FilterInit ==
  /\ store = [o \in OrderIds |-> "absent"]
  /\ delivered = [o \in OrderIds |-> 0]
  /\ invocations = 0
  /\ job = [i \in Instances |-> IdleJob]
  /\ wh = [variant |-> "none"]
  /\ storeFault = FALSE
  /\ sendFailed = {}
  /\ flt \in { [pc |-> "input", orders |-> l, now |-> n, out |-> <<>>] :
                 l \in FilterOrderLists, n \in NowValues }

\* fetchRecentShippedOrders on an OK response carrying flt.orders.
ApplyFilter ==
  /\ flt.pc = "input"
  /\ flt' = [flt EXCEPT !.pc = "done",
                        !.out = fetchRecentShippedOrders("ok", flt.orders, flt.now)]
  /\ UNCHANGED <<store, delivered, invocations, job, wh, storeFault, sendFailed>>

FilterNext == ApplyFilter

\* ------------------------------------------------------------------- init
IdleWebhook == [variant |-> "none"]
IdleFilter  == [pc |-> "idle"]

Init ==
  /\ store = [o \in OrderIds |-> "absent"]
  /\ delivered = [o \in OrderIds |-> 0]
  /\ invocations = 0
  /\ job = [i \in Instances |-> IdleJob]
  /\ wh = IdleWebhook
  /\ flt = IdleFilter
  /\ storeFault = FALSE
  /\ sendFailed = {}

\* The scheduled polling job, one invocation after the other.
Next == JobNext("a")

Spec == Init /\ [][Next]_vars

\* Two invocations of the polling job that overlap in time (the schedule and a
\* manual trigger, or a run that outlasts the hour): each handler instance is
\* invoked once and their awaits interleave freely. Nothing in the handler
\* takes a lock.
ConcurrentOrderLists == {s \in JobOrderLists : Len(s) <= MaxConcurrentOrders}

ConcurrentStart(i) ==
  /\ job[i].pc = "idle"
  /\ invocations < MaxInvocations
  /\ invocations' = invocations + 1
  /\ \E keys \in BOOLEAN, outcome \in FetchOutcomes,
        result \in ConcurrentOrderLists, now \in NowValues :
       job' = [job EXCEPT ![i] = BeginJob(keys, outcome, result, now)]
  /\ UNCHANGED <<store, delivered, wh, flt, storeFault, sendFailed>>

ConcurrentNext ==
  \E i \in Instances :
    \/ ConcurrentStart(i)
    \/ CheckSent(i)
    \/ GetShipment(i)
    \/ SendEmail(i)
    \/ MarkSent(i)

ConcurrentSpec == Init /\ [][ConcurrentNext]_vars

\* One webhook request, handled by one of the three variants.
WebhookSpec == Init /\ [][WebhookNext]_vars

\* fetchRecentShippedOrders applied to every bounded order list.
FilterSpec == FilterInit /\ [][FilterNext]_vars

\* ================================================================= claims
Count(seq, kinds) == Cardinality({k \in 1..Len(seq) : seq[k] \in kinds})

Requested(j, kind, k) == <<kind, j.orders[k]>> \in j.calls

\* The event type a webhook variant handles.
HandledType(variant) ==
  IF variant = "directEmail" THEN "package_shipped" ELSE "shipment_sent"

WhDone == wh.variant # "none"

\* ---- C1 (Spec)
\* For every order whose flag read succeeded with 'sent', the invocation has
\* moved on to the next order, recorded the order as skipped, and issued no
\* shipment-detail request, no email send and no flag write for it.
C1_AlreadySentIsSkipped ==
  \A i \in Instances :
    \A k \in 1..Len(job[i].reads) :
      job[i].reads[k] = "sent" =>
        /\ job[i].idx > k
        /\ k <= Len(job[i].outcomes) /\ job[i].outcomes[k] = "skipped"
        /\ ~Requested(job[i], "detail", k)
        /\ ~Requested(job[i], "send", k)
        /\ ~Requested(job[i], "set", k)

\* An order was read as 'sent' and the loop stands at the next order.
C1_Witness ==
  \E i \in Instances :
    /\ job[i].pc = "check"
    /\ job[i].idx >= 2
    /\ job[i].reads[job[i].idx - 1] = "sent"

\* ---- C2 (Spec)
\* A store read that throws is taken as 'not sent': the order is never
\* skipped, and the invocation goes on to the shipment-detail request that
\* leads to the send.
C2_StoreErrorMeansNotSent ==
  \A i \in Instances :
    \A k \in 1..Len(job[i].reads) :
      job[i].reads[k] = "error" =>
        /\ k <= Len(job[i].outcomes) => job[i].outcomes[k] # "skipped"
        /\ \/ Requested(job[i], "detail", k)
           \/ job[i].pc = "detail" /\ job[i].idx = k

\* The flag of the order is 'sent', the read of it threw, and the send has
\* just succeeded for the second time (the first was an earlier invocation).
C2_Witness ==
  \E i \in Instances :
    /\ job[i].pc = "mark"
    /\ job[i].reads[job[i].idx] = "error"
    /\ store[job[i].orders[job[i].idx]] = "sent"
    /\ delivered[job[i].orders[job[i].idx]] = 2

\* ---- C3 (Spec)
\* An invocation that had its API keys ends with 200, with ordersFound the
\* length of the filtered list, and with every order of the list processed
\* (its flag read, its outcome recorded), whatever failed on the way.
C3_FailureDoesNotAbortLoop ==
  \A i \in Instances :
    (job[i].pc = "done" /\ job[i].response.body # "missingKeys") =>
      /\ job[i].response.statusCode = 200
      /\ job[i].response.ordersFound = Len(job[i].orders)
      /\ Len(job[i].outcomes) = Len(job[i].orders)
      /\ \A k \in 1..Len(job[i].orders) : Requested(job[i], "get", k)

\* The invocation is over and an order before the last one failed or threw.
C3_Witness ==
  \E i \in Instances :
    /\ job[i].pc = "done"
    /\ job[i].response.statusCode = 200
    /\ \E k \in 1..(Len(job[i].orders) - 1) :
         job[i].outcomes[k] \in {"failed", "threw"}

\* ---- C4 (Spec)
\* In a 200 response emailsSent is the number of orders whose send returned
\* success, errors the number whose send returned failure or whose iteration
\* threw, and emailsSent + errors <= ordersFound.
C4_CountsMatchOutcomes ==
  \A i \in Instances :
    (job[i].pc = "done" /\ job[i].response.statusCode = 200) =>
      /\ job[i].response.emailsSent = Count(job[i].outcomes, {"sent"})
      /\ job[i].response.errors = Count(job[i].outcomes, {"failed", "threw"})
      /\ job[i].response.emailsSent + job[i].response.errors
           <= job[i].response.ordersFound

\* A 200 response in which some order counted and some order (skipped or
\* without shipment info) counted in neither.
C4_Witness ==
  \E i \in Instances :
    /\ job[i].pc = "done"
    /\ job[i].response.statusCode = 200
    /\ Count(job[i].outcomes, {"skipped", "noinfo"}) >= 1
    /\ job[i].response.emailsSent + job[i].response.errors >= 1

\* ---- C5 (WebhookSpec)
\* Every variant answers a request whose method is not POST with 405, without
\* calling JSON.parse and without an outbound request.
C5_NonPostIs405 ==
  (WhDone /\ wh.httpMethod # "POST") =>
    /\ wh.statusCode = 405
    /\ ~wh.parsed
    /\ wh.calls = <<>>

\* A GET carrying a complete shipped-package body got 405.
C5_Witness ==
  /\ WhDone
  /\ wh.variant = "directEmail"
  /\ wh.httpMethod = "GET"
  /\ wh.body.type = "package_shipped" /\ wh.body.email /\ wh.body.shipment
  /\ wh.statusCode = 405

\* ---- C6 (WebhookSpec)
\* Every variant answers a POST of its handled event type that lacks the
\* recipient or the recipient's email with 400 and no outbound request.
C6_MissingEmailIs400 ==
  (/\ WhDone
   /\ wh.httpMethod = "POST"
   /\ wh.body.json = "object"
   /\ wh.body.type = HandledType(wh.variant)
   /\ ~wh.body.email) =>
    /\ wh.statusCode = 400
    /\ wh.calls = <<>>

\* ---- C7 (WebhookSpec)
\* Every variant answers a POST whose payload has another type than the one
\* it handles with 200 'Event type not handled' and no outbound request.
C7_OtherTypeIsNoOp ==
  (/\ WhDone
   /\ wh.httpMethod = "POST"
   /\ wh.body.json = "object"
   /\ wh.body.type # HandledType(wh.variant)) =>
    /\ wh.statusCode = 200
    /\ wh.reply = "notHandled"
    /\ wh.calls = <<>>

\* The direct-email variant was sent a complete event of the other type.
C7_Witness ==
  /\ WhDone
  /\ wh.variant = "directEmail"
  /\ wh.httpMethod = "POST"
  /\ wh.body.type = "shipment_sent" /\ wh.body.email
  /\ wh.reply = "notHandled"

\* ---- C8 (WebhookSpec)
\* Remove-then-re-add variant, shipment_sent event with a recipient email and
\* a group id: the add-to-group POST is only issued after the DELETE; a DELETE
\* that threw or was not OK does not keep the add-to-group POST from being
\* issued; the response is 200 exactly when the add-to-group POST returned OK.
C8_RemoveThenReAdd ==
  (/\ WhDone
   /\ wh.variant = "removeReAdd"
   /\ wh.httpMethod = "POST"
   /\ wh.body.json = "object"
   /\ wh.body.type = "shipment_sent"
   /\ wh.body.email
   /\ wh.groupId) =>
    /\ \A k \in 1..Len(wh.calls) :
         wh.calls[k].req = "POST group" =>
           \E m \in 1..(k - 1) : wh.calls[m].req = "DELETE group"
    /\ (/\ wh.body.items # "malformed"
        /\ wh.body.name # "nonString"
        /\ ~IsOk(wh.outs[1])
        /\ wh.outs[2] \notin {"thrown", "nonOKNoBody"}) =>
         \E k \in 1..Len(wh.calls) : wh.calls[k].req = "POST group"
    /\ wh.statusCode = 200 <=>
         \E k \in 1..Len(wh.calls) :
           wh.calls[k].req = "POST group" /\ IsOk(wh.calls[k].outcome)

\* The DELETE threw, the add-to-group POST was issued and the answer is 200.
C8_Witness ==
  /\ WhDone
  /\ wh.variant = "removeReAdd"
  /\ Len(wh.calls) = 3
  /\ wh.calls[1] = Call("DELETE group", "thrown")
  /\ wh.calls[3].req = "POST group"
  /\ wh.statusCode = 200

\* ---- C9 (FilterSpec)
\* fetchRecentShippedOrders returns exactly the orders that have a shipment
\* and whose first shipment's shipped_at (the order's updated time when
\* shipped_at is missing) is strictly later than now minus 24 hours, each
\* unchanged and in the order of the provider's list.
C9_ShippedTime(order) ==
  IF order.shipments[1].shipped_at = 0
    THEN order.updated
    ELSE order.shipments[1].shipped_at

C9_InWindow(order, now) ==
  /\ Len(order.shipments) >= 1
  /\ C9_ShippedTime(order) > now - Window

C9_FilterIsWindow ==
  flt.pc = "done" =>
    /\ {flt.out[m].id : m \in 1..Len(flt.out)}
         = {k \in 1..Len(flt.orders) : C9_InWindow(flt.orders[k], flt.now)}
    /\ \A m \in 1..Len(flt.out) : flt.out[m] = flt.orders[flt.out[m].id]
    /\ \A m, n \in 1..Len(flt.out) : m < n => flt.out[m].id < flt.out[n].id

\* The first order's first shipment left exactly 24 hours ago (a later
\* shipment is recent) and is dropped; the second has no shipped_at, a recent
\* updated time, and is kept.
C9_Witness ==
  /\ flt.pc = "done"
  /\ Len(flt.orders) = 2
  /\ Len(flt.orders[1].shipments) = 2
  /\ flt.orders[1].shipments[1].shipped_at = flt.now - Window
  /\ flt.orders[1].shipments[2].shipped_at > flt.now - Window
  /\ Len(flt.orders[2].shipments) = 1
  /\ flt.orders[2].shipments[1].shipped_at = 0
  /\ flt.orders[2].updated > flt.now - Window
  /\ flt.out = <<flt.orders[2]>>

\* ---- C10 (WebhookSpec)
\* As claimed: no exception leaves a handler, the status is one of 200, 400,
\* 405, 500, and every exception raised after the method check (caught at the
\* top or before) gives 500 with the error body.
C10_EveryExceptionIs500 ==
  WhDone =>
    /\ ~wh.escaped
    /\ wh.statusCode \in {200, 400, 405, 500}
    /\ (wh.caught \/ wh.swallowed # {}) =>
         (wh.statusCode = 500 /\ wh.reply = "failedToProcess")

\* As amended: no exception leaves a handler, the status is one of 200, 400,
\* 405, 500, and every exception that reaches the handler's top-level catch
\* gives 500 with the error body.
C10_CaughtExceptionIs500 ==
  WhDone =>
    /\ ~wh.escaped
    /\ wh.statusCode \in {200, 400, 405, 500}
    /\ wh.caught => (wh.statusCode = 500 /\ wh.reply = "failedToProcess")

\* A network error of the first outbound call ended in the top-level catch.
C10_Witness ==
  /\ WhDone
  /\ wh.variant = "createOrUpdate"
  /\ Len(wh.calls) = 1
  /\ wh.calls[1].outcome = "thrown"
  /\ wh.caught
  /\ wh.statusCode = 500

\* ---- C11 (Spec)
\* Invocations follow one another and no store read or write has thrown:
\* sendShipmentEmail has returned success at most once per order id, and an
\* order that was sent successfully is, in every invocation that has read
\* its flag, either the one this invocation sent or one it skipped.
C11_AtMostOncePerOrder ==
  ~storeFault =>
    /\ \A o \in OrderIds : delivered[o] <= 1
    /\ \A i \in Instances :
         \A k \in 1..Len(job[i].reads) :
           delivered[job[i].orders[k]] >= 1 =>
             /\ k <= Len(job[i].outcomes)
             /\ job[i].outcomes[k] \in {"sent", "skipped"}

\* A second invocation has skipped an order the first one sent.
C11_Witness ==
  /\ ~storeFault
  /\ invocations = 2
  /\ \E i \in Instances :
       \E k \in 1..Len(job[i].outcomes) :
         /\ job[i].reads[k] = "sent"
         /\ job[i].outcomes[k] = "skipped"
         /\ delivered[job[i].orders[k]] = 1

\* ---- C12 (Spec)
\* The flag of an order is written only by an invocation whose send for that
\* order returned success: a flag write is requested only for an order the
\* invocation has recorded as sent, and a flag that reads 'sent' belongs to
\* an order with a successful send. An order whose send failed and never
\* succeeded keeps its flag absent, so an invocation that reads it does not
\* skip the order.
C12_FlagOnlyAfterSuccess ==
  /\ \A i \in Instances :
       \A k \in 1..Len(job[i].orders) :
         Requested(job[i], "set", k) =>
           k <= Len(job[i].outcomes) /\ job[i].outcomes[k] = "sent"
  /\ \A o \in OrderIds : store[o] = "sent" => delivered[o] >= 1
  /\ \A o \in sendFailed :
       delivered[o] = 0 =>
         /\ store[o] = "absent"
         /\ \A i \in Instances :
              \A k \in 1..Len(job[i].reads) :
                job[i].orders[k] = o =>
                  /\ job[i].reads[k] # "sent"
                  /\ k <= Len(job[i].outcomes) => job[i].outcomes[k] # "skipped"

\* The send of an order failed in the first invocation; the second one has
\* sent it again, with success, and is about to write the flag.
C12_Witness ==
  /\ invocations = 2
  /\ \E i \in Instances :
       /\ job[i].pc = "mark"
       /\ job[i].orders[job[i].idx] \in sendFailed
       /\ delivered[job[i].orders[job[i].idx]] = 1
       /\ store[job[i].orders[job[i].idx]] = "absent"

\* ---- C14 (Spec)
\* An order-list request that failed (non-OK status or thrown) counts as an
\* empty list: the invocation reads and writes no flag, issues no other
\* request, and returns 200 with ordersFound, emailsSent and errors all 0.
\* A 500 is returned only when an API key is missing.
C14_FetchFailureIsEmptyList ==
  \A i \in Instances :
    /\ job[i].fetch \in {"nonOK", "thrown"} =>
         /\ job[i].pc = "done"
         /\ job[i].orders = <<>>
         /\ job[i].reads = <<>>
         /\ job[i].calls = {}
         /\ job[i].response =
              [statusCode |-> 200, body |-> "completed",
               ordersFound |-> 0, emailsSent |-> 0, errors |-> 0]
    /\ (job[i].pc = "done" /\ job[i].response.statusCode = 500) => ~job[i].keys
    /\ (job[i].pc = "done" /\ ~job[i].keys) =>
         job[i].response.statusCode = 500 /\ job[i].calls = {}

\* The order-list request was answered with an error status while an order's
\* flag was already set by an earlier invocation; the invocation is over.
C14_Witness ==
  /\ \E o \in OrderIds : store[o] = "sent"
  /\ \E i \in Instances :
       /\ job[i].pc = "done"
       /\ job[i].fetch = "nonOK"
       /\ job[i].response.statusCode = 200
       /\ job[i].response.ordersFound = 0

\* ---- C13 (ConcurrentSpec)
\* Two overlapping invocations, no store read or write has thrown: an
\* invocation sends an order's email only after it has itself read the
\* order's flag as absent, and nothing but that read stands between it and
\* the send. So when the email of one order id has been sent twice, both
\* invocations had read the flag as absent, which the witness shows to
\* happen before either has written it.
C13_SendRestsOnOwnRead ==
  ~storeFault =>
    /\ \A i \in Instances :
         \A k \in 1..Len(job[i].outcomes) :
           job[i].outcomes[k] = "sent" => job[i].reads[k] = "absent"
    /\ \A o \in OrderIds :
         delivered[o] >= 2 =>
           \A i \in Instances :
             \E k \in 1..Len(job[i].outcomes) :
               /\ job[i].orders[k] = o
               /\ job[i].reads[k] = "absent"
               /\ job[i].outcomes[k] = "sent"

\* Both invocations have read the flag of the same order as absent and both
\* sends have returned success; neither has written the flag yet, and no
\* store operation has thrown.
C13_Witness ==
  /\ ~storeFault
  /\ \E o \in OrderIds :
       /\ store[o] = "absent"
       /\ delivered[o] = 2
       /\ \A i \in Instances :
            /\ job[i].pc = "mark"
            /\ job[i].orders[job[i].idx] = o
            /\ job[i].reads[job[i].idx] = "absent"

====
